---- MODULE Spec2Model ----
(***************************************************************************)
(* chksum-build: the parsers of cargo profiles, rustup channels, hosts and *)
(* toolchains (src/cargo.rs, src/rust.rs), their Display renderings, and   *)
(* the build-script steps that emit them (src/script.rs, src/info.rs).     *)
(*                                                                         *)
(* Text is a TLA+ string; a character is a string of length one.  A nom    *)
(* IResult is a record: [ok |-> TRUE, rest, val] for Ok((rest, val)) and   *)
(* [ok |-> FALSE, errors] for Err(Err::Error(VerboseError {errors})),      *)
(* errors being the list of (input, kind) pairs in the order nom pushes    *)
(* them.                                                                   *)
(***************************************************************************)
EXTENDS Integers, Sequences, FiniteSets, TLC

VARIABLES input, var_present, rustup_toolchain, pc, result, rendered,
          stdout_buffer, stdout

vars ==
    <<input, var_present, rustup_toolchain, pc, result, rendered,
      stdout_buffer, stdout>>

(***************************************************************************)
(* Bounds of the model.                                                    *)
(***************************************************************************)
\* Longest text over VersionAlphabet that Init enumerates exhaustively.
MaxVersionLen == 7

\* Pointer width of the target (usize); 16 is the narrowest Rust supports.
UsizeBits == 16

UsizeMax == 2^UsizeBits - 1

(***************************************************************************)
(* Characters and text.                                                    *)
(***************************************************************************)
Digits == {"0", "1", "2", "3", "4", "5", "6", "7", "8", "9"}

LowerLetters ==
    {"a", "b", "c", "d", "e", "f", "g", "h", "i", "j", "k", "l", "m",
     "n", "o", "p", "q", "r", "s", "t", "u", "v", "w", "x", "y", "z"}

UpperLetters ==
    {"A", "B", "C", "D", "E", "F", "G", "H", "I", "J", "K", "L", "M",
     "N", "O", "P", "Q", "R", "S", "T", "U", "V", "W", "X", "Y", "Z"}

is_digit(c) == c \in Digits

is_alphabetic(c) == c \in LowerLetters \cup UpperLetters

DigitValue(c) ==
    CASE c = "0" -> 0 [] c = "1" -> 1 [] c = "2" -> 2 [] c = "3" -> 3
      [] c = "4" -> 4 [] c = "5" -> 5 [] c = "6" -> 6 [] c = "7" -> 7
      [] c = "8" -> 8 [] c = "9" -> 9

DigitChar(d) ==
    CASE d = 0 -> "0" [] d = 1 -> "1" [] d = 2 -> "2" [] d = 3 -> "3"
      [] d = 4 -> "4" [] d = 5 -> "5" [] d = 6 -> "6" [] d = 7 -> "7"
      [] d = 8 -> "8" [] d = 9 -> "9"

starts_with(s, t) == Len(s) >= Len(t) /\ SubSeq(s, 1, Len(t)) = t

\* &s[n..]
skip(s, n) == SubSeq(s, n + 1, Len(s))

\* &s[..n]
take(s, n) == SubSeq(s, 1, n)

(***************************************************************************)
(* Option, Result and IResult values.                                      *)
(***************************************************************************)
None == [some |-> FALSE]

Some(v) == [some |-> TRUE, val |-> v]

Ok(rest, val) == [ok |-> TRUE, rest |-> rest, val |-> val]

NomKind(kind) == <<"Nom", kind>>

ContextKind(ctx) == <<"Context", ctx>>

\* E::from_error_kind(input, kind) wrapped in Err::Error
from_error_kind(i, kind) ==
    [ok |-> FALSE, errors |-> <<[input |-> i, kind |-> NomKind(kind)]>>]

(***************************************************************************)
(* The nom combinators the parsers are built from.  A combinator takes the *)
(* input it was applied to and the result of its inner parser on it.       *)
(***************************************************************************)
tag(t, i) ==
    IF starts_with(i, t) THEN Ok(skip(i, Len(t)), t)
    ELSE from_error_kind(i, "Tag")

RECURSIVE CountWhile(_, _)
\* Length of the longest prefix of i whose characters are all in set.
CountWhile(set, i) ==
    IF i = "" \/ Head(i) \notin set THEN 0
    ELSE 1 + CountWhile(set, Tail(i))

digit1(i) ==
    LET n == CountWhile(Digits, i)
    IN  IF n = 0 THEN from_error_kind(i, "Digit")
        ELSE Ok(skip(i, n), take(i, n))

alpha1(i) ==
    LET n == CountWhile(LowerLetters \cup UpperLetters, i)
    IN  IF n = 0 THEN from_error_kind(i, "Alpha")
        ELSE Ok(skip(i, n), take(i, n))

\* Mutant: the context is put in front of the trace.
context_in_front(ctx, i, r) ==
    IF r.ok THEN r
    ELSE [ok |-> FALSE,
          errors |-> <<[input |-> i, kind |-> ContextKind(ctx)]>> \o r.errors]

\* context(ctx, f)(i): a failure of f gets (i, Context(ctx)) pushed last.
context(ctx, i, r) ==
    IF r.ok THEN r
    ELSE [ok |-> FALSE,
          errors |-> Append(r.errors, [input |-> i, kind |-> ContextKind(ctx)])]

\* The end of alt((..)): the last alternative's error, with (i, Alt) appended.
alt_error(i, last) ==
    [ok |-> FALSE,
     errors |-> Append(last.errors, [input |-> i, kind |-> NomKind("Alt")])]

alt2(i, r1, r2) ==
    IF r1.ok THEN r1 ELSE IF r2.ok THEN r2 ELSE alt_error(i, r2)

alt3(i, r1, r2, r3) ==
    IF r1.ok THEN r1 ELSE IF r2.ok THEN r2 ELSE IF r3.ok THEN r3
    ELSE alt_error(i, r3)

\* opt(f)(i)
opt(i, r) == IF r.ok THEN Ok(r.rest, Some(r.val)) ELSE Ok(i, None)

\* peek(f)(i)
peek(i, r) == IF r.ok THEN Ok(i, r.val) ELSE r

\* not(f)(i)
not(i, r) == IF r.ok THEN from_error_kind(i, "Not") ELSE Ok(i, "()")

\* Mutant: what the parser left is not looked at.
all_consuming_unchecked(i, r) == r

\* all_consuming(f)(i)
all_consuming(i, r) ==
    IF r.ok /\ r.rest # "" THEN from_error_kind(r.rest, "Eof") ELSE r

\* .finish().map_err(..): the IResult as the Result from_str returns.
finish(r) ==
    IF r.ok THEN [ok |-> TRUE, val |-> r.val]
    ELSE [ok |-> FALSE, error |-> "Nom", errors |-> r.errors]

\* Sequencing, as tuple, preceded and terminated do it and as `?` does it:
\* the next parser runs on what r left, and a failure of r is returned.
and_then(r, next(_)) == IF r.ok THEN next(r) ELSE r

\* The value of a successful parse replaced by f of it.
map(r, f(_)) == IF r.ok THEN Ok(r.rest, f(r.val)) ELSE r

RECURSIVE parse_digits(_, _)
\* The accumulation of <usize as FromStr>: checked_mul(10), checked_add(d);
\* -1 stands for Err(PosOverflow).
parse_digits(acc, s) ==
    IF s = "" THEN acc
    ELSE LET next == acc * 10 + DigitValue(Head(s))
         IN  IF next > UsizeMax THEN -1 ELSE parse_digits(next, Tail(s))

RECURSIVE parse_digits_wrapping(_, _)
\* Mutant: the accumulation wraps around at the width of usize.
parse_digits_wrapping(acc, s) ==
    IF s = "" THEN acc
    ELSE parse_digits_wrapping((acc * 10 + DigitValue(Head(s))) % (UsizeMax + 1),
                               Tail(s))

str_parse_wrapping(s) == parse_digits_wrapping(0, s)

str_parse(s) == parse_digits(0, s)

\* map_res(f, str::parse)(i)
map_res_parse(i, r) ==
    IF ~r.ok THEN r
    ELSE LET n == str_parse(r.val)
         IN  IF n < 0 THEN from_error_kind(i, "MapRes") ELSE Ok(r.rest, n)

RECURSIVE usize_to_string(_)
usize_to_string(n) ==
    IF n < 10 THEN DigitChar(n)
    ELSE usize_to_string(n \div 10) \o DigitChar(n % 10)

(***************************************************************************)
(* cargo::Profile                                                          *)
(***************************************************************************)
Profile_DEBUG_STR == "debug"

Profile_RELEASE_STR == "release"

Profile_nom_parse(i) ==
    map(context("profile", i,
                alt2(i, tag(Profile_RELEASE_STR, i), tag(Profile_DEBUG_STR, i))),
        LAMBDA profile :
            CASE profile = Profile_RELEASE_STR -> "Release"
              [] profile = Profile_DEBUG_STR -> "Debug"
              [] OTHER -> "unreachable!")

Profile_from_str(s) ==
    finish(context("profile", s, all_consuming(s, Profile_nom_parse(s))))

Profile_fmt(profile) ==
    CASE profile = "Release" -> Profile_RELEASE_STR
      [] profile = "Debug" -> Profile_DEBUG_STR

(***************************************************************************)
(* rust::ChannelVersion                                                    *)
(***************************************************************************)
MajorMinor(major, minor) ==
    [tag |-> "MajorMinor", major |-> major, minor |-> minor]

MajorMinorPatch(major, minor, patch) ==
    [tag |-> "MajorMinorPatch", major |-> major, minor |-> minor,
     patch |-> patch]

\* terminated(digit1, tag("."))(i)
digit1_dot(i) ==
    and_then(digit1(i), LAMBDA d :
    and_then(tag(".", d.rest), LAMBDA dot : Ok(dot.rest, d.val)))

\* context("major", map_res(terminated(digit1, tag(".")), str::parse))(i),
\* which is also the minor of the three-component form
version_component_dot(ctx, i) ==
    context(ctx, i, map_res_parse(i, digit1_dot(i)))

\* context("minor", map_res(digit1, str::parse))(i), also the patch
version_component(ctx, i) ==
    context(ctx, i, map_res_parse(i, digit1(i)))

\* Mutant: no look-ahead for a third component.
not_patch_absent(i) == Ok(i, "()")

\* context("not-patch", peek(not(tag("."))))(i)
not_patch(i) == context("not-patch", i, peek(i, not(i, tag(".", i))))

ChannelVersion_nom_parse_major_minor(i) ==
    context("version", i,
        and_then(version_component_dot("major", i), LAMBDA major :
        and_then(version_component("minor", major.rest), LAMBDA minor :
        and_then(not_patch(minor.rest), LAMBDA np :
        Ok(np.rest, MajorMinor(major.val, minor.val))))))

\* Mutant: the three-component form looks ahead for a fourth component.
ChannelVersion_nom_parse_major_minor_patch_only(i) ==
    context("version", i,
        and_then(version_component_dot("major", i), LAMBDA major :
        and_then(version_component_dot("minor", major.rest), LAMBDA minor :
        and_then(version_component("patch", minor.rest), LAMBDA patch :
        and_then(not_patch(patch.rest), LAMBDA np :
        Ok(np.rest, MajorMinorPatch(major.val, minor.val, patch.val)))))))

ChannelVersion_nom_parse_major_minor_patch(i) ==
    context("version", i,
        and_then(version_component_dot("major", i), LAMBDA major :
        and_then(version_component_dot("minor", major.rest), LAMBDA minor :
        and_then(version_component("patch", minor.rest), LAMBDA patch :
        Ok(patch.rest, MajorMinorPatch(major.val, minor.val, patch.val))))))

ChannelVersion_nom_parse(i) ==
    context("version", i,
            alt2(i, ChannelVersion_nom_parse_major_minor(i),
                 ChannelVersion_nom_parse_major_minor_patch(i)))

\* Mutant: the patch component is not rendered.
ChannelVersion_fmt_no_patch(version) ==
    usize_to_string(version.major) \o "." \o usize_to_string(version.minor)

ChannelVersion_fmt(version) ==
    CASE version.tag = "MajorMinor" ->
           usize_to_string(version.major) \o "." \o usize_to_string(version.minor)
      [] version.tag = "MajorMinorPatch" ->
           usize_to_string(version.major) \o "." \o usize_to_string(version.minor)
             \o "." \o usize_to_string(version.patch)

(***************************************************************************)
(* rust::Channel                                                           *)
(***************************************************************************)
Channel_BETA_STR == "beta"

Channel_NIGHTLY_STR == "nightly"

Channel_STABLE_STR == "stable"

Stable == [tag |-> "Stable"]

Beta == [tag |-> "Beta"]

Nightly == [tag |-> "Nightly"]

Version(version) == [tag |-> "Version", version |-> version]

RECURSIVE to_ascii_lowercase(_)
to_ascii_lowercase(s) ==
    IF s = "" THEN ""
    ELSE (IF Head(s) \in UpperLetters
          THEN LET k == CHOOSE j \in 1..26 :
                            SubSeq("ABCDEFGHIJKLMNOPQRSTUVWXYZ", j, j) = Head(s)
               IN  SubSeq("abcdefghijklmnopqrstuvwxyz", k, k)
          ELSE Head(s))
         \o to_ascii_lowercase(Tail(s))

\* tag_no_case(t)(i), with the keyword as its value
tag_no_case(t, i) ==
    IF Len(i) >= Len(t) /\ to_ascii_lowercase(take(i, Len(t))) = t
    THEN Ok(skip(i, Len(t)), t)
    ELSE from_error_kind(i, "Tag")

\* Mutant: the keywords are matched without regard to case.
Channel_nom_parse_simple_no_case(i) ==
    map(alt3(i, context("stable", i, tag_no_case(Channel_STABLE_STR, i)),
                context("beta", i, tag_no_case(Channel_BETA_STR, i)),
                context("nightly", i, tag_no_case(Channel_NIGHTLY_STR, i))),
        LAMBDA channel :
            CASE channel = Channel_STABLE_STR -> Stable
              [] channel = Channel_BETA_STR -> Beta
              [] channel = Channel_NIGHTLY_STR -> Nightly
              [] OTHER -> [tag |-> "unreachable!"])

Channel_nom_parse_simple(i) ==
    map(alt3(i, context("stable", i, tag(Channel_STABLE_STR, i)),
                context("beta", i, tag(Channel_BETA_STR, i)),
                context("nightly", i, tag(Channel_NIGHTLY_STR, i))),
        LAMBDA channel :
            CASE channel = Channel_STABLE_STR -> Stable
              [] channel = Channel_BETA_STR -> Beta
              [] channel = Channel_NIGHTLY_STR -> Nightly
              [] OTHER -> [tag |-> "unreachable!"])

Channel_nom_parse_version(i) ==
    map(context("version", i, ChannelVersion_nom_parse(i)),
        LAMBDA version : Version(version))

Channel_nom_parse(i) ==
    context("channel", i,
            alt2(i, Channel_nom_parse_simple(i), Channel_nom_parse_version(i)))

\* Mutant: the channel rule without the demand that it consumes everything.
Channel_from_str_prefix(s) == finish(context("channel", s, Channel_nom_parse(s)))

Channel_from_str(s) ==
    finish(context("channel", s, all_consuming(s, Channel_nom_parse(s))))

\* Mutant: Beta is rendered with the text of Stable.
Channel_fmt_beta_as_stable(channel) ==
    CASE channel.tag = "Stable" -> Channel_STABLE_STR
      [] channel.tag = "Beta" -> Channel_STABLE_STR
      [] channel.tag = "Nightly" -> Channel_NIGHTLY_STR
      [] channel.tag = "Version" -> ChannelVersion_fmt(channel.version)

Channel_fmt(channel) ==
    CASE channel.tag = "Stable" -> Channel_STABLE_STR
      [] channel.tag = "Beta" -> Channel_BETA_STR
      [] channel.tag = "Nightly" -> Channel_NIGHTLY_STR
      [] channel.tag = "Version" -> ChannelVersion_fmt(channel.version)

(***************************************************************************)
(* rust::Architecture, rust::Vendor                                        *)
(***************************************************************************)
Architecture_I686_STR == "i686"

Architecture_X86_64_STR == "x86_64"

\* Mutant: the match has no arm for X86_64_STR.
Architecture_nom_parse_one_arm(i) ==
    map(context("architecture", i,
                alt2(i, context("i686", i, tag(Architecture_I686_STR, i)),
                        context("x86_64", i, tag(Architecture_X86_64_STR, i)))),
        LAMBDA architecture :
            CASE architecture = Architecture_I686_STR -> "i686"
              [] OTHER -> "unreachable!")

Architecture_nom_parse(i) ==
    map(context("architecture", i,
                alt2(i, context("i686", i, tag(Architecture_I686_STR, i)),
                        context("x86_64", i, tag(Architecture_X86_64_STR, i)))),
        LAMBDA architecture :
            CASE architecture = Architecture_I686_STR -> "i686"
              [] architecture = Architecture_X86_64_STR -> "x86_64"
              [] OTHER -> "unreachable!")

Architecture_fmt(architecture) ==
    CASE architecture = "i686" -> Architecture_I686_STR
      [] architecture = "x86_64" -> Architecture_X86_64_STR

Vendor_APPLE_STR == "apple"

Vendor_PC_STR == "pc"

Vendor_UNKNOWN_STR == "unknown"

Vendor_nom_parse(i) ==
    map(context("vendor", i,
                alt3(i, tag(Vendor_APPLE_STR, i), tag(Vendor_PC_STR, i),
                        tag(Vendor_UNKNOWN_STR, i))),
        LAMBDA vendor :
            CASE vendor = Vendor_APPLE_STR -> "Apple"
              [] vendor = Vendor_PC_STR -> "PC"
              [] vendor = Vendor_UNKNOWN_STR -> "Unknown"
              [] OTHER -> "unreachable!")

Vendor_fmt(vendor) ==
    CASE vendor = "Apple" -> Vendor_APPLE_STR
      [] vendor = "PC" -> Vendor_PC_STR
      [] vendor = "Unknown" -> Vendor_UNKNOWN_STR

(***************************************************************************)
(* rust::LinuxAbi, rust::WindowsAbi                                        *)
(***************************************************************************)
\* Mutant: the short tag without its look-ahead.
tag_without_lookahead(t, i) == tag(t, i)

\* terminated(tag(t), not(peek(alpha1)))(i)
tag_not_alpha(t, i) ==
    and_then(tag(t, i), LAMBDA t_ :
    and_then(not(t_.rest, peek(t_.rest, alpha1(t_.rest))), LAMBDA n :
    Ok(n.rest, t_.val)))

LinuxAbi_GNUX32_STR == "gnux32"

LinuxAbi_GNU_STR == "gnu"

LinuxAbi_MUSL_STR == "musl"

LinuxAbi_nom_parse(i) ==
    map(context("linux-abi", i,
                alt3(i, tag_not_alpha(LinuxAbi_GNU_STR, i),
                        tag(LinuxAbi_GNUX32_STR, i),
                        tag(LinuxAbi_MUSL_STR, i))),
        LAMBDA linux_abi :
            CASE linux_abi = LinuxAbi_GNU_STR -> "GNU"
              [] linux_abi = LinuxAbi_GNUX32_STR -> "GNUX32"
              [] linux_abi = LinuxAbi_MUSL_STR -> "MUSL"
              [] OTHER -> "unreachable!")

LinuxAbi_fmt(linux_abi) ==
    CASE linux_abi = "GNU" -> LinuxAbi_GNU_STR
      [] linux_abi = "GNUX32" -> LinuxAbi_GNUX32_STR
      [] linux_abi = "MUSL" -> LinuxAbi_MUSL_STR

WindowsAbi_GNULLVM_STR == "gnullvm"

WindowsAbi_GNU_STR == "gnu"

WindowsAbi_MSVC_STR == "msvc"

WindowsAbi_nom_parse(i) ==
    map(context("windows-abi", i,
                alt3(i, tag_not_alpha(WindowsAbi_GNU_STR, i),
                        tag(WindowsAbi_GNULLVM_STR, i),
                        tag(WindowsAbi_MSVC_STR, i))),
        LAMBDA windows_abi :
            CASE windows_abi = WindowsAbi_GNU_STR -> "GNU"
              [] windows_abi = WindowsAbi_GNULLVM_STR -> "GNULLVM"
              [] windows_abi = WindowsAbi_MSVC_STR -> "MSVC"
              [] OTHER -> "unreachable!")

WindowsAbi_fmt(windows_abi) ==
    CASE windows_abi = "GNU" -> WindowsAbi_GNU_STR
      [] windows_abi = "GNULLVM" -> WindowsAbi_GNULLVM_STR
      [] windows_abi = "MSVC" -> WindowsAbi_MSVC_STR

(***************************************************************************)
(* rust::System                                                            *)
(***************************************************************************)
System_DARWIN_STR == "darwin"

System_LINUX_STR == "linux"

System_WINDOWS_STR == "windows"

Darwin == [tag |-> "Darwin"]

Linux(linux_abi) == [tag |-> "Linux", abi |-> linux_abi]

Windows(windows_abi) == [tag |-> "Windows", abi |-> windows_abi]

\* preceded(tag("-"), LinuxAbi::nom_parse)(i)
hyphen_linux_abi(i) ==
    and_then(tag("-", i), LAMBDA h : LinuxAbi_nom_parse(h.rest))

hyphen_windows_abi(i) ==
    and_then(tag("-", i), LAMBDA h : WindowsAbi_nom_parse(h.rest))

System_nom_parse(i) ==
    and_then(context("system", i,
                     alt3(i, tag(System_DARWIN_STR, i), tag(System_LINUX_STR, i),
                             tag(System_WINDOWS_STR, i))),
             LAMBDA system :
        CASE system.val = System_DARWIN_STR -> Ok(system.rest, Darwin)
          [] system.val = System_LINUX_STR ->
               map(context("system-abi", system.rest,
                           hyphen_linux_abi(system.rest)),
                   LAMBDA linux_abi : Linux(linux_abi))
          [] system.val = System_WINDOWS_STR ->
               map(context("system-abi", system.rest,
                           hyphen_windows_abi(system.rest)),
                   LAMBDA windows_abi : Windows(windows_abi))
          [] OTHER -> Ok(system.rest, [tag |-> "unreachable!"]))

System_fmt(system) ==
    CASE system.tag = "Darwin" -> System_DARWIN_STR
      [] system.tag = "Linux" ->
           System_LINUX_STR \o "-" \o LinuxAbi_fmt(system.abi)
      [] system.tag = "Windows" ->
           System_WINDOWS_STR \o "-" \o WindowsAbi_fmt(system.abi)

(***************************************************************************)
(* rust::Host                                                              *)
(***************************************************************************)
\* preceded(tag("-"), Vendor::nom_parse)(i)
hyphen_vendor(i) ==
    and_then(tag("-", i), LAMBDA h : Vendor_nom_parse(h.rest))

hyphen_system(i) ==
    and_then(tag("-", i), LAMBDA h : System_nom_parse(h.rest))

\* Mutant: the vendor segment is required.
Host_vendor_required(i) == map(hyphen_vendor(i), LAMBDA vendor : Some(vendor))

\* The vendor segment of Host::nom_parse:
\* opt(preceded(tag("-"), Vendor::nom_parse))
Host_vendor(i) == opt(i, hyphen_vendor(i))

Host_nom_parse(i) ==
    context("host", i,
        and_then(Architecture_nom_parse(i), LAMBDA architecture :
        and_then(Host_vendor(architecture.rest), LAMBDA vendor :
        and_then(hyphen_system(vendor.rest), LAMBDA system :
        Ok(system.rest,
           [architecture |-> architecture.val, vendor |-> vendor.val,
            system |-> system.val])))))

Host_from_str(s) ==
    finish(context("host", s, all_consuming(s, Host_nom_parse(s))))

\* Mutant: the vendor is rendered without the hyphen before it.
Host_fmt_vendor_unhyphenated(host) ==
    Architecture_fmt(host.architecture)
      \o (IF host.vendor.some THEN Vendor_fmt(host.vendor.val) ELSE "")
      \o "-" \o System_fmt(host.system)

Host_fmt(host) ==
    Architecture_fmt(host.architecture)
      \o (IF host.vendor.some THEN "-" \o Vendor_fmt(host.vendor.val) ELSE "")
      \o "-" \o System_fmt(host.system)

is_leap_year(year) ==
    year % 4 = 0 /\ (year % 100 # 0 \/ year % 400 = 0)

\* Mutant: every month has 31 days.
days_in_month_31(year, month) == 31

days_in_month(year, month) ==
    CASE month \in {1, 3, 5, 7, 8, 10, 12} -> 31
      [] month \in {4, 6, 9, 11} -> 30
      [] month = 2 -> IF is_leap_year(year) THEN 29 ELSE 28
      [] OTHER -> 0

\* A numeric item of the format: one to width digits are taken.
scan_number(s, width) ==
    and_then(digit1(s), LAMBDA d :
        IF Len(d.val) > width
        THEN Ok(skip(s, width), str_parse(take(s, width)))
        ELSE Ok(d.rest, str_parse(d.val)))

NaiveDate_parse_from_str(date) ==
    and_then(scan_number(date, 4), LAMBDA year :
    and_then(tag("-", year.rest), LAMBDA h1 :
    and_then(scan_number(h1.rest, 2), LAMBDA month :
    and_then(tag("-", month.rest), LAMBDA h2 :
    and_then(scan_number(h2.rest, 2), LAMBDA day :
        IF day.rest # "" THEN [ok |-> FALSE]
        ELSE IF month.val < 1 \/ month.val > 12 THEN [ok |-> FALSE]
        ELSE IF day.val < 1 \/ day.val > days_in_month(year.val, month.val)
             THEN [ok |-> FALSE]
        ELSE [ok |-> TRUE,
              val |-> [year |-> year.val, month |-> month.val,
                       day |-> day.val]])))))

pad2(n) == IF n < 10 THEN "0" \o usize_to_string(n) ELSE usize_to_string(n)

\* {:04}
pad4(n) ==
    IF n < 10 THEN "000" \o usize_to_string(n)
    ELSE IF n < 100 THEN "00" \o usize_to_string(n)
    ELSE IF n < 1000 THEN "0" \o usize_to_string(n)
    ELSE usize_to_string(n)

NaiveDate_fmt(date) ==
    pad4(date.year) \o "-" \o pad2(date.month) \o "-" \o pad2(date.day)

(***************************************************************************)
(* rust::Toolchain                                                         *)
(***************************************************************************)
\* recognize(tuple((year, tag("-"), month, tag("-"), day)))(i)
date_text(i) ==
    and_then(context("year", i, digit1(i)), LAMBDA year :
    and_then(tag("-", year.rest), LAMBDA h1 :
    and_then(context("month", h1.rest, digit1(h1.rest)), LAMBDA month :
    and_then(tag("-", month.rest), LAMBDA h2 :
    and_then(context("day", h2.rest, digit1(h2.rest)), LAMBDA day :
    Ok(day.rest, take(i, Len(i) - Len(day.rest))))))))

\* The end of map_res(.., |date| NaiveDate::parse_from_str(date, "%Y-%m-%d"))(i)
map_res_date(i, rest, date) ==
    IF date.ok THEN Ok(rest, date.val) ELSE from_error_kind(i, "MapRes")

Toolchain_nom_parse_date(i) ==
    and_then(context("date", i, date_text(i)), LAMBDA text :
             map_res_date(i, text.rest, NaiveDate_parse_from_str(text.val)))

hyphen_date(i) ==
    and_then(tag("-", i), LAMBDA h : Toolchain_nom_parse_date(h.rest))

hyphen_host(i) ==
    and_then(tag("-", i), LAMBDA h : Host_nom_parse(h.rest))

\* The date segment of Toolchain::nom_parse:
\* opt(preceded(tag("-"), Self::nom_parse_date))
Toolchain_date(i) == opt(i, hyphen_date(i))

\* The host segment of Toolchain::nom_parse:
\* opt(preceded(tag("-"), Host::nom_parse))
Toolchain_host(i) == opt(i, hyphen_host(i))

\* Mutant: the host segment is tried before the date segment.
Toolchain_nom_parse_host_first(i) ==
    context("toolchain", i,
        and_then(Channel_nom_parse(i), LAMBDA channel :
        and_then(Toolchain_host(channel.rest), LAMBDA host :
        and_then(Toolchain_date(host.rest), LAMBDA date :
        Ok(date.rest,
           [channel |-> channel.val, date |-> date.val, host |-> host.val])))))

Toolchain_nom_parse(i) ==
    context("toolchain", i,
        and_then(Channel_nom_parse(i), LAMBDA channel :
        and_then(Toolchain_date(channel.rest), LAMBDA date :
        and_then(Toolchain_host(date.rest), LAMBDA host :
        Ok(host.rest,
           [channel |-> channel.val, date |-> date.val, host |-> host.val])))))

Toolchain_from_str(s) ==
    finish(context("toolchain", s, all_consuming(s, Toolchain_nom_parse(s))))

Toolchain_fmt(toolchain) ==
    Channel_fmt(toolchain.channel)
      \o (IF toolchain.date.some THEN NaiveDate_fmt(toolchain.date.val) ELSE "")
      \o (IF toolchain.host.some THEN Host_fmt(toolchain.host.val) ELSE "")

OkUnit == [ok |-> TRUE, val |-> "()"]

\* env::var(..)? on a variable that is not set
EnvVarError == [ok |-> FALSE, error |-> "EnvVar", errors |-> <<>>]

setup_build_lines(datetime) ==
    "cargo:rustup-env=CHKSUM_BUILD_INFO_BUILD_DATETIME=" \o datetime \o "\n"

setup_cargo_lines(profile) ==
    "cargo:rustup-cfg=" \o Profile_fmt(profile) \o "\n"
      \o "cargo:rustup-env=CHKSUM_BUILD_INFO_CARGO_PROFILE="
      \o Profile_fmt(profile) \o "\n"

\* Mutant: the two directives in the other order.
setup_rust_lines_env_first(channel) ==
    "cargo:rustup-env=CHKSUM_BUILD_INFO_RUST_CHANNEL="
      \o Channel_fmt(channel) \o "\n"
      \o "cargo:rustup-cfg=" \o Channel_fmt(channel) \o "\n"

setup_rust_lines(channel) ==
    "cargo:rustup-cfg=" \o Channel_fmt(channel) \o "\n"
      \o "cargo:rustup-env=CHKSUM_BUILD_INFO_RUST_CHANNEL="
      \o Channel_fmt(channel) \o "\n"

RECURSIVE line_len(_)
\* Number of characters before the first line break of s.
line_len(s) ==
    IF s = "" \/ Head(s) = "\n" THEN 0 ELSE 1 + line_len(Tail(s))

RECURSIVE exported(_, _)
\* The value the directive "cargo:rustup-env=<name>=<value>" of the build
\* script's output gives the variable name, which env!(name) then reads.
exported(buffer, name) ==
    IF buffer = "" THEN None
    ELSE LET n == line_len(buffer)
             line == take(buffer, n)
             marker == "cargo:rustup-env=" \o name \o "="
         IN  IF starts_with(line, marker) THEN Some(skip(line, Len(marker)))
             ELSE exported(skip(buffer, n + 1), name)

(***************************************************************************)
(* The strings the operations are given.                                   *)
(***************************************************************************)
VersionAlphabet == {"0", "1", "."}

RECURSIVE Texts(_, _)
\* Every text over alphabet of at most n characters.
Texts(alphabet, n) ==
    IF n = 0 THEN {""}
    ELSE LET shorter == Texts(alphabet, n - 1)
         IN  shorter \cup {t \o c : t \in shorter, c \in alphabet}

LowerAlphabet == "abcdefghijklmnopqrstuvwxyz"

UpperAlphabet == "ABCDEFGHIJKLMNOPQRSTUVWXYZ"

to_ascii_uppercase(c) ==
    LET k == CHOOSE j \in 1..26 : SubSeq(LowerAlphabet, j, j) = c
    IN  SubSeq(UpperAlphabet, k, k)

RECURSIVE CaseVariants(_)
\* Every spelling of w with each letter in lower or in upper case.
CaseVariants(w) ==
    IF w = "" THEN {""}
    ELSE {c \o v : c \in {Head(w), to_ascii_uppercase(Head(w))},
                   v \in CaseVariants(Tail(w))}

Keywords ==
    {Profile_RELEASE_STR, Profile_DEBUG_STR,
     Channel_STABLE_STR, Channel_BETA_STR, Channel_NIGHTLY_STR}

KeywordInputs == UNION {CaseVariants(w) : w \in Keywords}

ArchTexts == {"i686", "x86_64", "arm"}

VendorTexts == {"", "-apple", "-pc", "-unknown", "-foo"}

SystemTexts == {"", "-darwin", "-linux", "-windows"}

AbiTexts ==
    {"", "-gnu", "-gnux32", "-gnullvm", "-musl", "-msvc", "-gnux", "-gnu-"}

HostInputs ==
    {a \o v \o s \o b :
        a \in ArchTexts, v \in VendorTexts, s \in SystemTexts, b \in AbiTexts}

AbiInputs ==
    {"gnu", "gnux32", "gnullvm", "musl", "msvc", "gnux", "gnu-", "gnu1",
     "gnuabc", "gn", "gnux32-x", "gnullvmx", "gnu-2023"}

ChannelTexts ==
    {"stable", "beta", "nightly", "1.3", "01.3", "1.52.1", "01.02.003"}

DateTexts ==
    {"", "-2023-01-15", "-2023-04-31", "-2023-1-5", "-23-01-15",
     "-2024-02-29", "-2023-02-29", "-20231-01-15", "-2023-13-01",
     "-2023-00-10", "-2023-01-00", "-2023-01-32", "-1900-02-29"}

HostTexts ==
    {"", "-x86_64-unknown-linux-gnu", "-i686-apple-darwin",
     "-x86_64-pc-windows-gnullvm", "-x86_64-linux-gnux32", "-x86_64-apple"}

ToolchainInputs ==
    {c \o d \o h : c \in ChannelTexts, d \in DateTexts, h \in HostTexts}
      \cup {c \o h \o d : c \in ChannelTexts, d \in DateTexts, h \in HostTexts}

OtherInputs ==
    {"dbg", "release ", "debugx", "1.3.", "1.52.", "1.52.1.", "1.3.4.5",
     "65535.0", "65536.0", "999999.0", "1.999999", "1.0.999999",
     "stable-", "-stable", "x86_64-unknown-linux-gnu-", "1.3x"}

Inputs ==
    Texts(VersionAlphabet, MaxVersionLen) \cup KeywordInputs \cup HostInputs
      \cup AbiInputs \cup ToolchainInputs \cup OtherInputs

\* What Local::now() renders to when setup_build runs.
Datetimes == {"2023-01-15 10:20:30", "2024-02-29 23:59:59"}

(***************************************************************************)
(* The state machine.  input is the string an operation is given: the      *)
(* argument of a parser, or the value of the environment variable a        *)
(* build-script step reads (var_present: whether that variable is set).    *)
(* pc names the operation that ran last, result what it returned.          *)
(* BuildScript::setup reads two variables: PROFILE is input, and           *)
(* RUSTUP_TOOLCHAIN is rustup_toolchain (None: not set).  stdout is what   *)
(* print! has written.                                                     *)
(***************************************************************************)
\* Values of PROFILE and RUSTUP_TOOLCHAIN that setup is run with.
SetupProfiles == {"release", "debug", "Release", "1.3"}

RustupToolchains ==
    {None, Some("stable"), Some("01.3-2023-01-15-x86_64-unknown-linux-gnu"),
     Some("1.52.1-x86_64-pc-windows-gnullvm"), Some("nightly-2023-04-31"),
     Some("release")}

NotCalled == [ok |-> FALSE, error |-> "NotCalled", errors |-> <<>>]

Init ==
    /\ \/ input \in Inputs /\ var_present = TRUE /\ rustup_toolchain = None
       \/ /\ input \in SetupProfiles /\ var_present = TRUE
          /\ rustup_toolchain \in RustupToolchains
       \/ /\ input = "" /\ var_present = FALSE
          /\ rustup_toolchain \in RustupToolchains
    /\ pc = "start"
    /\ result = NotCalled
    /\ rendered = ""
    /\ stdout_buffer = ""
    /\ stdout = ""

\* A parser applied to input.
Profile_from_str_call ==
    /\ pc = "start"
    /\ pc' = "Profile::from_str"
    /\ result' = Profile_from_str(input)
    /\ UNCHANGED <<input, var_present, rustup_toolchain, stdout, rendered, stdout_buffer>>

Channel_from_str_call ==
    /\ pc = "start"
    /\ pc' = "Channel::from_str"
    /\ result' = Channel_from_str(input)
    /\ UNCHANGED <<input, var_present, rustup_toolchain, stdout, rendered, stdout_buffer>>

Host_from_str_call ==
    /\ pc = "start"
    /\ pc' = "Host::from_str"
    /\ result' = Host_from_str(input)
    /\ UNCHANGED <<input, var_present, rustup_toolchain, stdout, rendered, stdout_buffer>>

Toolchain_from_str_call ==
    /\ pc = "start"
    /\ pc' = "Toolchain::from_str"
    /\ result' = Toolchain_from_str(input)
    /\ UNCHANGED <<input, var_present, rustup_toolchain, stdout, rendered, stdout_buffer>>

ChannelVersion_nom_parse_call ==
    /\ pc = "start"
    /\ pc' = "ChannelVersion::nom_parse"
    /\ result' = ChannelVersion_nom_parse(input)
    /\ UNCHANGED <<input, var_present, rustup_toolchain, stdout, rendered, stdout_buffer>>

LinuxAbi_nom_parse_call ==
    /\ pc = "start"
    /\ pc' = "LinuxAbi::nom_parse"
    /\ result' = LinuxAbi_nom_parse(input)
    /\ UNCHANGED <<input, var_present, rustup_toolchain, stdout, rendered, stdout_buffer>>

WindowsAbi_nom_parse_call ==
    /\ pc = "start"
    /\ pc' = "WindowsAbi::nom_parse"
    /\ result' = WindowsAbi_nom_parse(input)
    /\ UNCHANGED <<input, var_present, rustup_toolchain, stdout, rendered, stdout_buffer>>

\* format!("{}", value) of the value a from_str call returned.
to_string ==
    /\ result.ok
    /\ \/ pc = "Profile::from_str" /\ pc' = "Profile::to_string"
          /\ rendered' = Profile_fmt(result.val)
       \/ pc = "Channel::from_str" /\ pc' = "Channel::to_string"
          /\ rendered' = Channel_fmt(result.val)
       \/ pc = "Host::from_str" /\ pc' = "Host::to_string"
          /\ rendered' = Host_fmt(result.val)
       \/ pc = "Toolchain::from_str" /\ pc' = "Toolchain::to_string"
          /\ rendered' = Toolchain_fmt(result.val)
    /\ UNCHANGED <<input, var_present, rustup_toolchain, stdout, result, stdout_buffer>>

setup_build ==
    /\ pc = "start"
    /\ pc' = "setup_build"
    /\ \E datetime \in Datetimes :
          stdout_buffer' = stdout_buffer \o setup_build_lines(datetime)
    /\ result' = OkUnit
    /\ UNCHANGED <<input, var_present, rustup_toolchain, stdout, rendered>>

\* env::var("PROFILE") is input.
setup_cargo ==
    /\ pc \in {"start", "setup_build"}
    /\ pc' = "setup_cargo"
    /\ LET profile == IF var_present THEN Profile_from_str(input)
                      ELSE EnvVarError
       IN  IF profile.ok
           THEN /\ stdout_buffer' =
                       stdout_buffer \o setup_cargo_lines(profile.val)
                /\ result' = OkUnit
           ELSE /\ stdout_buffer' = stdout_buffer
                /\ result' = profile
    /\ UNCHANGED <<input, var_present, rustup_toolchain, stdout, rendered>>

\* env::var("RUSTUP_TOOLCHAIN") is input.
setup_rust ==
    /\ pc \in {"start", "setup_build"}
    /\ pc' = "setup_rust"
    /\ LET toolchain == IF var_present THEN Toolchain_from_str(input)
                        ELSE EnvVarError
       IN  IF toolchain.ok
           THEN /\ stdout_buffer' =
                       stdout_buffer \o setup_rust_lines(toolchain.val.channel)
                /\ result' = OkUnit
           ELSE /\ stdout_buffer' = stdout_buffer
                /\ result' = toolchain
    /\ UNCHANGED <<input, var_present, rustup_toolchain, stdout, rendered>>

\* cargo!() of build_info!: Profile::from_str(env!("CHKSUM_BUILD_INFO_CARGO_PROFILE"))
build_info_cargo ==
    /\ pc = "setup_cargo"
    /\ result.ok
    /\ LET profile == exported(stdout_buffer, "CHKSUM_BUILD_INFO_CARGO_PROFILE")
       IN  /\ profile.some
           /\ result' = Profile_from_str(profile.val)
    /\ pc' = "cargo!"
    /\ UNCHANGED <<input, var_present, rustup_toolchain, stdout, rendered, stdout_buffer>>

\* rust!() of build_info!: Channel::from_str(env!("CHKSUM_BUILD_INFO_RUST_CHANNEL"))
build_info_rust ==
    /\ pc = "setup_rust"
    /\ result.ok
    /\ LET channel == exported(stdout_buffer, "CHKSUM_BUILD_INFO_RUST_CHANNEL")
       IN  /\ channel.some
           /\ result' = Channel_from_str(channel.val)
    /\ pc' = "rust!"
    /\ UNCHANGED <<input, var_present, rustup_toolchain, stdout, rendered, stdout_buffer>>

\* BuildScript::setup, one statement at a time; pc "setup/<step>" says
\* which step setup ran last, "setup/Ok" and "setup/Err" that it returned.
\* self.setup_build(&mut stdout_buffer)? on the new buffer
setup_run_build ==
    /\ pc = "start"
    /\ pc' = "setup/setup_build"
    /\ \E datetime \in Datetimes :
          stdout_buffer' = stdout_buffer \o setup_build_lines(datetime)
    /\ result' = OkUnit
    /\ UNCHANGED <<input, var_present, rustup_toolchain, stdout, rendered>>

\* self.setup_cargo(&mut stdout_buffer)?
setup_run_cargo ==
    /\ pc = "setup/setup_build"
    /\ LET profile == IF var_present THEN Profile_from_str(input)
                      ELSE EnvVarError
       IN  IF profile.ok
           THEN /\ stdout_buffer' =
                       stdout_buffer \o setup_cargo_lines(profile.val)
                /\ result' = OkUnit
                /\ pc' = "setup/setup_cargo"
           ELSE /\ stdout_buffer' = stdout_buffer
                /\ result' = profile
                /\ pc' = "setup/Err"
    /\ UNCHANGED <<input, var_present, rustup_toolchain, stdout, rendered>>

\* Mutant: the error of setup_rust is dropped and setup goes on.
setup_run_rust_unchecked ==
    /\ pc = "setup/setup_cargo"
    /\ pc' = "setup/setup_rust"
    /\ LET toolchain == IF rustup_toolchain.some
                        THEN Toolchain_from_str(rustup_toolchain.val)
                        ELSE EnvVarError
       IN  IF toolchain.ok
           THEN /\ stdout_buffer' =
                       stdout_buffer \o setup_rust_lines(toolchain.val.channel)
                /\ result' = OkUnit
           ELSE /\ stdout_buffer' = stdout_buffer
                /\ result' = toolchain
    /\ UNCHANGED <<input, var_present, rustup_toolchain, stdout, rendered>>

\* self.setup_rust(&mut stdout_buffer)?
setup_run_rust ==
    /\ pc = "setup/setup_cargo"
    /\ LET toolchain == IF rustup_toolchain.some
                        THEN Toolchain_from_str(rustup_toolchain.val)
                        ELSE EnvVarError
       IN  IF toolchain.ok
           THEN /\ stdout_buffer' =
                       stdout_buffer \o setup_rust_lines(toolchain.val.channel)
                /\ result' = OkUnit
                /\ pc' = "setup/setup_rust"
           ELSE /\ stdout_buffer' = stdout_buffer
                /\ result' = toolchain
                /\ pc' = "setup/Err"
    /\ UNCHANGED <<input, var_present, rustup_toolchain, stdout, rendered>>

\* print!("{stdout_buffer}"); Ok(())
setup_print ==
    /\ pc = "setup/setup_rust"
    /\ pc' = "setup/Ok"
    /\ stdout' = stdout \o stdout_buffer
    /\ result' = OkUnit
    /\ UNCHANGED <<input, var_present, rustup_toolchain, rendered, stdout_buffer>>

Next ==
    \/ Profile_from_str_call
    \/ Channel_from_str_call
    \/ Host_from_str_call
    \/ Toolchain_from_str_call
    \/ ChannelVersion_nom_parse_call
    \/ LinuxAbi_nom_parse_call
    \/ WindowsAbi_nom_parse_call
    \/ to_string
    \/ setup_build
    \/ setup_cargo
    \/ setup_rust
    \/ build_info_cargo
    \/ build_info_rust
    \/ setup_run_build
    \/ setup_run_cargo
    \/ setup_run_rust
    \/ setup_print

Spec == Init /\ [][Next]_vars

(***************************************************************************)
(* Reference notions the properties are stated with.  They are written on  *)
(* the text alone and use none of the parsers above.                       *)
(***************************************************************************)
ends_with(s, t) ==
    Len(s) >= Len(t) /\ SubSeq(s, Len(s) - Len(t) + 1, Len(s)) = t

RECURSIVE ChannelSegment(_)
\* The text before the first hyphen: the channel segment of a toolchain.
ChannelSegment(s) ==
    IF s = "" \/ Head(s) = "-" THEN "" ELSE Head(s) \o ChannelSegment(Tail(s))

RECURSIVE StripZeros(_, _)
\* s with the superfluous leading zeros of every dotted component removed.
StripZeros(s, at_start) ==
    IF s = "" THEN ""
    ELSE IF Head(s) = "." THEN "." \o StripZeros(Tail(s), TRUE)
    ELSE IF at_start /\ Head(s) = "0" /\ Tail(s) # "" /\ Head(Tail(s)) \in Digits
         THEN StripZeros(Tail(s), TRUE)
    ELSE Head(s) \o StripZeros(Tail(s), FALSE)

\* The canonical text of a channel text: keywords as they are, version
\* components in plain decimal.
CanonicalChannelText(s) == StripZeros(s, TRUE)

(***************************************************************************)
(* C1: for every accepted PROFILE, setup_cargo appends exactly the lines   *)
(* cargo:rustup-cfg=<p> and cargo:rustup-env=CHKSUM_BUILD_INFO_CARGO_      *)
(* PROFILE=<p>, in this order; for every accepted RUSTUP_TOOLCHAIN,        *)
(* setup_rust appends exactly cargo:rustup-cfg=<c> and cargo:rustup-env=   *)
(* CHKSUM_BUILD_INFO_RUST_CHANNEL=<c>, <c> being the canonical text of the *)
(* channel segment alone, whatever date and host follow it.                *)
(***************************************************************************)
C1_SetupAppendsDirectives ==
    [][/\ (pc' = "setup_cargo" /\ var_present /\ Profile_from_str(input).ok)
            => /\ input \in {"release", "debug"}
               /\ stdout_buffer' =
                    stdout_buffer \o "cargo:rustup-cfg=" \o input \o "\n"
                      \o "cargo:rustup-env=CHKSUM_BUILD_INFO_CARGO_PROFILE="
                      \o input \o "\n"
       /\ (pc' = "setup_rust" /\ var_present /\ Toolchain_from_str(input).ok)
            => LET c == CanonicalChannelText(ChannelSegment(input))
               IN  stdout_buffer' =
                     stdout_buffer \o "cargo:rustup-cfg=" \o c \o "\n"
                       \o "cargo:rustup-env=CHKSUM_BUILD_INFO_RUST_CHANNEL="
                       \o c \o "\n"
      ]_vars

\* setup_rust ran after setup_build on a toolchain with a version channel
\* written with a leading zero, a date and a host.
C1_Witness ==
    /\ pc = "setup_rust"
    /\ result.ok
    /\ input = "01.3-2023-01-15-x86_64-unknown-linux-gnu"
    /\ starts_with(stdout_buffer, "cargo:rustup-env=CHKSUM_BUILD_INFO_BUILD_DATETIME=")
    /\ ends_with(stdout_buffer, "CHKSUM_BUILD_INFO_RUST_CHANNEL=1.3\n")

(***************************************************************************)
(* C2: the channel text setup_rust emits for an accepted toolchain is      *)
(* accepted by Channel::from_str (as rust!() applies it) and yields the    *)
(* channel of the toolchain: parse(render(parse(s))) = parse(s).           *)
(***************************************************************************)
C2_EmittedChannelReparses ==
    pc = "rust!" =>
        /\ result.ok
        /\ result.val = Toolchain_from_str(input).val.channel

\* rust!() read back a three-component version written with leading zeros.
C2_Witness ==
    /\ pc = "rust!"
    /\ input = "01.02.003-2023-01-15"
    /\ result.ok
    /\ result.val = Version(MajorMinorPatch(1, 2, 3))

(***************************************************************************)
(* The shape of a version text, read off the text: its leading digit       *)
(* groups g1 . g2 . g3 and what follows them.                              *)
(***************************************************************************)
RECURSIVE LeadingDigits(_)
LeadingDigits(s) ==
    IF s = "" \/ Head(s) \notin Digits THEN ""
    ELSE Head(s) \o LeadingDigits(Tail(s))

RECURSIVE DecimalValue(_)
\* The number a digit group denotes.
DecimalValue(g) ==
    IF g = "" THEN 0
    ELSE 10 * DecimalValue(SubSeq(g, 1, Len(g) - 1))
           + (CHOOSE d \in 0..9 : DigitChar(d) = SubSeq(g, Len(g), Len(g)))

FitsUsize(g) == DecimalValue(g) <= UsizeMax

Group1(s) == LeadingDigits(s)

After1(s) == skip(s, Len(Group1(s)))

Group2(s) == LeadingDigits(skip(After1(s), 1))

After2(s) == skip(After1(s), 1 + Len(Group2(s)))

Group3(s) == LeadingDigits(skip(After2(s), 1))

After3(s) == skip(After2(s), 1 + Len(Group3(s)))

\* s starts with <digits>.<digits>
HasTwoComponents(s) ==
    Group1(s) # "" /\ starts_with(After1(s), ".") /\ Group2(s) # ""

\* s starts with <digits>.<digits>.<digits>
HasThreeComponents(s) ==
    HasTwoComponents(s) /\ starts_with(After2(s), ".") /\ Group3(s) # ""

IsMajorMinor(r) == r.ok /\ r.val.tag = "MajorMinor"

(***************************************************************************)
(* C3 as stated: the version parser returns MajorMinor(a, b) exactly when  *)
(* the input starts with <digits>.<digits> and the next character is not   *)
(* '.', returns MajorMinorPatch(a, b, c) when it starts with               *)
(* <digits>.<digits>.<digits>, and never returns MajorMinor with a         *)
(* remainder that starts with '.'.                                         *)
(***************************************************************************)
C3_AsStated ==
    pc = "ChannelVersion::nom_parse" =>
        /\ IsMajorMinor(result)
             <=> (HasTwoComponents(input) /\ ~starts_with(After2(input), "."))
        /\ IsMajorMinor(result) =>
             /\ result.val = MajorMinor(DecimalValue(Group1(input)),
                                        DecimalValue(Group2(input)))
             /\ result.rest = After2(input)
             /\ ~starts_with(result.rest, ".")
        /\ HasThreeComponents(input) =>
             result = Ok(After3(input),
                         MajorMinorPatch(DecimalValue(Group1(input)),
                                         DecimalValue(Group2(input)),
                                         DecimalValue(Group3(input))))

(***************************************************************************)
(* C3 amended: the same, for components that fit the target's usize; a     *)
(* component that does not fit makes the parse fail.                       *)
(***************************************************************************)
C3_VersionTieBreak ==
    pc = "ChannelVersion::nom_parse" =>
        /\ IsMajorMinor(result)
             <=> /\ HasTwoComponents(input)
                 /\ ~starts_with(After2(input), ".")
                 /\ FitsUsize(Group1(input)) /\ FitsUsize(Group2(input))
        /\ IsMajorMinor(result) =>
             /\ result.val = MajorMinor(DecimalValue(Group1(input)),
                                        DecimalValue(Group2(input)))
             /\ result.rest = After2(input)
             /\ ~starts_with(result.rest, ".")
        /\ ( /\ HasThreeComponents(input)
             /\ FitsUsize(Group1(input)) /\ FitsUsize(Group2(input))
             /\ FitsUsize(Group3(input)) ) =>
             result = Ok(After3(input),
                         MajorMinorPatch(DecimalValue(Group1(input)),
                                         DecimalValue(Group2(input)),
                                         DecimalValue(Group3(input))))
        /\ ( /\ HasTwoComponents(input)
             /\ ~(FitsUsize(Group1(input)) /\ FitsUsize(Group2(input))) ) =>
             ~result.ok

\* The version parser was given 1.52.1 and returned all three components.
C3_Witness ==
    /\ pc = "ChannelVersion::nom_parse"
    /\ input = "1.52.1"
    /\ result = Ok("", MajorMinorPatch(1, 52, 1))

(***************************************************************************)
(* C4: both ABI parsers accept the short tag gnu only when no letter       *)
(* follows it, so GNU is never returned with letters of a longer tag left  *)
(* over: gnux32 and gnullvm resolve to the long tags, and hosts ending in  *)
(* -windows-gnullvm, -linux-gnux32 and -gnu parse to Windows(GNULLVM),     *)
(* Linux(GNUX32) and the GNU variant.                                      *)
(***************************************************************************)
HostPrefixes ==
    {a \o v : a \in {"i686", "x86_64"}, v \in {"", "-apple", "-pc", "-unknown"}}

C4_ShortTagLookahead ==
    /\ pc \in {"LinuxAbi::nom_parse", "WindowsAbi::nom_parse"} =>
         /\ (result.ok /\ result.val = "GNU") <=>
              /\ starts_with(input, "gnu")
              /\ Len(input) = 3 \/ ~is_alphabetic(SubSeq(input, 4, 4))
         /\ (result.ok /\ result.val = "GNU") => result.rest = skip(input, 3)
    /\ pc = "LinuxAbi::nom_parse" =>
         (starts_with(input, "gnux32") => result = Ok(skip(input, 6), "GNUX32"))
    /\ pc = "WindowsAbi::nom_parse" =>
         (starts_with(input, "gnullvm") => result = Ok(skip(input, 7), "GNULLVM"))
    /\ pc = "Host::from_str" =>
         \A h \in HostPrefixes :
            /\ input = h \o "-windows-gnullvm" =>
                 result.ok /\ result.val.system = Windows("GNULLVM")
            /\ input = h \o "-linux-gnux32" =>
                 result.ok /\ result.val.system = Linux("GNUX32")
            /\ input = h \o "-windows-gnu" =>
                 result.ok /\ result.val.system = Windows("GNU")
            /\ input = h \o "-linux-gnu" =>
                 result.ok /\ result.val.system = Linux("GNU")

\* Host::from_str resolved a triple ending in -windows-gnullvm.
C4_Witness ==
    /\ pc = "Host::from_str"
    /\ input = "x86_64-pc-windows-gnullvm"
    /\ result.ok
    /\ result.val.system = Windows("GNULLVM")

(***************************************************************************)
(* C5: the segments of a toolchain come in the order channel[-date][-host] *)
(* : c, c-d, c-h and c-d-h parse to the channel alone, with the date, with *)
(* the host and with both, and c-h-d is rejected.                          *)
(***************************************************************************)
ChannelCases ==
    {[text |-> "stable", val |-> Stable],
     [text |-> "beta", val |-> Beta],
     [text |-> "nightly", val |-> Nightly],
     [text |-> "1.3", val |-> Version(MajorMinor(1, 3))],
     [text |-> "01.3", val |-> Version(MajorMinor(1, 3))],
     [text |-> "1.52.1", val |-> Version(MajorMinorPatch(1, 52, 1))],
     [text |-> "01.02.003", val |-> Version(MajorMinorPatch(1, 2, 3))]}

DateCases ==
    {[text |-> "2023-01-15", val |-> [year |-> 2023, month |-> 1, day |-> 15]],
     [text |-> "2024-02-29", val |-> [year |-> 2024, month |-> 2, day |-> 29]]}

HostCases ==
    {[text |-> "x86_64-unknown-linux-gnu",
      val |-> [architecture |-> "x86_64", vendor |-> Some("Unknown"),
               system |-> Linux("GNU")]],
     [text |-> "i686-apple-darwin",
      val |-> [architecture |-> "i686", vendor |-> Some("Apple"),
               system |-> Darwin]],
     [text |-> "x86_64-pc-windows-gnullvm",
      val |-> [architecture |-> "x86_64", vendor |-> Some("PC"),
               system |-> Windows("GNULLVM")]],
     [text |-> "x86_64-linux-gnux32",
      val |-> [architecture |-> "x86_64", vendor |-> None,
               system |-> Linux("GNUX32")]]}

Parsed(channel, date, host) ==
    [ok |-> TRUE, val |-> [channel |-> channel, date |-> date, host |-> host]]

C5_FixedSegmentOrder ==
    pc = "Toolchain::from_str" =>
        \A c \in ChannelCases, d \in DateCases, h \in HostCases :
            /\ input = c.text => result = Parsed(c.val, None, None)
            /\ input = c.text \o "-" \o d.text =>
                 result = Parsed(c.val, Some(d.val), None)
            /\ input = c.text \o "-" \o h.text =>
                 result = Parsed(c.val, None, Some(h.val))
            /\ input = c.text \o "-" \o d.text \o "-" \o h.text =>
                 result = Parsed(c.val, Some(d.val), Some(h.val))
            /\ input = c.text \o "-" \o h.text \o "-" \o d.text => ~result.ok

\* Toolchain::from_str parsed a channel followed by a date and a host.
C5_Witness ==
    /\ pc = "Toolchain::from_str"
    /\ input = "nightly-2023-01-15-x86_64-unknown-linux-gnu"
    /\ result.ok
    /\ result.val.date = Some([year |-> 2023, month |-> 1, day |-> 15])
    /\ result.val.host.some

(***************************************************************************)
(* The grammar architecture ['-' vendor] '-' system: HostValues are its    *)
(* values (Darwin without ABI, Linux and Windows with exactly one) and     *)
(* GrammarHost the one text of each.                                       *)
(***************************************************************************)
HostValues ==
    [architecture : {"i686", "x86_64"},
     vendor : {None} \cup {Some(v) : v \in {"Apple", "PC", "Unknown"}},
     system : {Darwin} \cup {Linux(a) : a \in {"GNU", "GNUX32", "MUSL"}}
                \cup {Windows(a) : a \in {"GNU", "GNULLVM", "MSVC"}}]

GrammarVendor(vendor) ==
    IF ~vendor.some THEN ""
    ELSE CASE vendor.val = "Apple" -> "-apple"
           [] vendor.val = "PC" -> "-pc"
           [] vendor.val = "Unknown" -> "-unknown"

GrammarSystem(system) ==
    CASE system = Darwin -> "darwin"
      [] system = Linux("GNU") -> "linux-gnu"
      [] system = Linux("GNUX32") -> "linux-gnux32"
      [] system = Linux("MUSL") -> "linux-musl"
      [] system = Windows("GNU") -> "windows-gnu"
      [] system = Windows("GNULLVM") -> "windows-gnullvm"
      [] system = Windows("MSVC") -> "windows-msvc"

GrammarHost(host) ==
    (IF host.architecture = "i686" THEN "i686" ELSE "x86_64")
      \o GrammarVendor(host.vendor) \o "-" \o GrammarSystem(host.system)

(***************************************************************************)
(* C6: Host::from_str accepts exactly the texts of the grammar             *)
(* architecture ['-' vendor] '-' system evaluated with full backtracking,  *)
(* and returns the value the grammar gives the text.                       *)
(***************************************************************************)
C6_HostGrammar ==
    pc = "Host::from_str" =>
        /\ result.ok <=> \E v \in HostValues : GrammarHost(v) = input
        /\ \A v \in HostValues : GrammarHost(v) = input => result.val = v

\* Host::from_str parsed a triple that has no vendor segment.
C6_Witness ==
    /\ pc = "Host::from_str"
    /\ input = "x86_64-linux-gnu"
    /\ result.ok
    /\ result.val.vendor = None
    /\ result.val.system = Linux("GNU")

\* Toolchain texts in canonical form: a channel without superfluous zeros,
\* then, each optional, -YYYY-MM-DD and -host.
CanonicalToolchainTexts ==
    {c.text \o d \o h :
        c \in {cc \in ChannelCases : CanonicalChannelText(cc.text) = cc.text},
        d \in {""} \cup {"-" \o dd.text : dd \in DateCases},
        h \in {""} \cup {"-" \o hh.text : hh \in HostCases}}

(***************************************************************************)
(* C7: rendering the value Toolchain::from_str returned gives back the     *)
(* text it was parsed from, the channel, the date and the host separated   *)
(* by single hyphens and no separator where the date or the host is        *)
(* absent.  Stated for the texts in canonical form, which rendering has    *)
(* nothing to normalise in.                                                *)
(***************************************************************************)
C7_ToolchainRoundTrip ==
    (pc = "Toolchain::to_string" /\ input \in CanonicalToolchainTexts)
        => rendered = input

(***************************************************************************)
(* C8 as stated: for every text Channel::from_str accepts, whatever digits *)
(* its components are written with, render(parse(s)) = s.                  *)
(***************************************************************************)
C8_AsStated ==
    pc = "Channel::to_string" => rendered = input

RECURSIVE HasLeadingZero(_, _)
\* Some dotted component of s starts with a 0 that another digit follows.
HasLeadingZero(s, at_start) ==
    IF s = "" THEN FALSE
    ELSE IF Head(s) = "." THEN HasLeadingZero(Tail(s), TRUE)
    ELSE \/ at_start /\ Head(s) = "0" /\ Tail(s) # "" /\ Head(Tail(s)) \in Digits
         \/ HasLeadingZero(Tail(s), FALSE)

(***************************************************************************)
(* C8 amended: render(parse(s)) is s with the superfluous leading zeros of *)
(* its version components removed; it is s itself for the three keywords   *)
(* and for every version text no component of which has a leading zero,    *)
(* and differs from s for every other accepted text.                       *)
(***************************************************************************)
C8_ChannelRoundTrip ==
    pc = "Channel::to_string" =>
        /\ rendered = CanonicalChannelText(input)
        /\ ~HasLeadingZero(input, TRUE) => rendered = input
        /\ HasLeadingZero(input, TRUE) => rendered # input

\* A version written with leading zeros was parsed and rendered without them.
C8_Witness ==
    /\ pc = "Channel::to_string"
    /\ input = "01.02.003"
    /\ result.val = Version(MajorMinorPatch(1, 2, 3))
    /\ rendered = "1.2.3"

(***************************************************************************)
(* C9: rendering the value Host::from_str returned gives back the text it  *)
(* was parsed from: architecture, -vendor only when there is one, -system, *)
(* with -abi for Linux and Windows.                                        *)
(***************************************************************************)
C9_HostRoundTrip ==
    pc = "Host::to_string" => rendered = input

\* A triple with a vendor and an ABI was parsed and rendered back.
C9_Witness ==
    /\ pc = "Host::to_string"
    /\ input = "x86_64-unknown-linux-gnux32"
    /\ result.val.vendor = Some("Unknown")
    /\ rendered = "x86_64-unknown-linux-gnux32"

RECURSIVE Lowercased(_)
\* s with every upper-case letter replaced by its lower-case letter.
Lowercased(s) ==
    IF s = "" THEN ""
    ELSE (IF \E j \in 1..26 : SubSeq(UpperAlphabet, j, j) = Head(s)
          THEN LET k == CHOOSE j \in 1..26 : SubSeq(UpperAlphabet, j, j) = Head(s)
               IN  SubSeq(LowerAlphabet, k, k)
          ELSE Head(s))
         \o Lowercased(Tail(s))

\* s is the keyword w with at least one letter in upper case.
IsUppercasedSpelling(s, w) == s # w /\ Lowercased(s) = w

(***************************************************************************)
(* C10: parsing is case-sensitive.  Profile::from_str accepts release and  *)
(* debug, Channel::from_str accepts stable, beta and nightly, and every    *)
(* spelling of one of these keywords with at least one uppercase letter is *)
(* rejected with an error.                                                 *)
(***************************************************************************)
C10_CaseSensitive ==
    /\ pc = "Profile::from_str" =>
         /\ input = "release" => result = [ok |-> TRUE, val |-> "Release"]
         /\ input = "debug" => result = [ok |-> TRUE, val |-> "Debug"]
         /\ \A w \in {"release", "debug"} :
               IsUppercasedSpelling(input, w) =>
                   ~result.ok /\ result.error = "Nom"
    /\ pc = "Channel::from_str" =>
         /\ input = "stable" => result = [ok |-> TRUE, val |-> Stable]
         /\ input = "beta" => result = [ok |-> TRUE, val |-> Beta]
         /\ input = "nightly" => result = [ok |-> TRUE, val |-> Nightly]
         /\ \A w \in {"stable", "beta", "nightly"} :
               IsUppercasedSpelling(input, w) =>
                   ~result.ok /\ result.error = "Nom"

\* Channel::from_str rejected a keyword spelled with one capital letter.
C10_Witness ==
    /\ pc = "Channel::from_str"
    /\ input = "nightLy"
    /\ ~result.ok
    /\ result.error = "Nom"


RECURSIVE DotCount(_)
\* Number of '.' in s.
DotCount(s) ==
    IF s = "" THEN 0
    ELSE (IF Head(s) = "." THEN 1 ELSE 0) + DotCount(Tail(s))

\* s is written with digits and dots only.
IsDotted(s) == \A k \in 1..Len(s) : SubSeq(s, k, k) \in Digits \cup {"."}

(***************************************************************************)
(* C11: Channel::from_str rejects every version text that ends with a '.'  *)
(* no digits follow, and every version text with more than three dotted    *)
(* components.                                                             *)
(***************************************************************************)
C11_TrailingDotRejected ==
    (pc = "Channel::from_str" /\ IsDotted(input) /\ HasTwoComponents(input)) =>
        /\ ends_with(input, ".") => ~result.ok /\ result.error = "Nom"
        /\ DotCount(input) >= 3 => ~result.ok /\ result.error = "Nom"

\* Channel::from_str rejected a three-component version with a trailing dot.
C11_Witness ==
    /\ pc = "Channel::from_str"
    /\ input = "1.52.1."
    /\ ~result.ok
    /\ result.error = "Nom"


\* The rule result r stops before the end of the input.
MatchesProperPrefix(r) == r.ok /\ r.rest # ""

(***************************************************************************)
(* C12: each from_str entry point returns an error whenever its grammar    *)
(* rule matches only a proper prefix of the input; no value is returned    *)
(* for the prefix.                                                         *)
(***************************************************************************)
C12_TrailingInputRejected ==
    /\ (pc = "Profile::from_str" /\ MatchesProperPrefix(Profile_nom_parse(input)))
         => ~result.ok /\ result.error = "Nom"
    /\ (pc = "Channel::from_str" /\ MatchesProperPrefix(Channel_nom_parse(input)))
         => ~result.ok /\ result.error = "Nom"
    /\ (pc = "Host::from_str" /\ MatchesProperPrefix(Host_nom_parse(input)))
         => ~result.ok /\ result.error = "Nom"
    /\ (pc = "Toolchain::from_str"
          /\ MatchesProperPrefix(Toolchain_nom_parse(input)))
         => ~result.ok /\ result.error = "Nom"

\* Host::from_str rejected a triple followed by one more hyphen.
C12_Witness ==
    /\ pc = "Host::from_str"
    /\ input = "x86_64-unknown-linux-gnu-"
    /\ Host_nom_parse(input).ok
    /\ Host_nom_parse(input).rest = "-"
    /\ ~result.ok


\* What follows the channel segment and its hyphen.
AfterChannel(s) == skip(s, Len(ChannelSegment(s)) + 1)

\* t starts with a date in the fixed format DDDD-DD-DD and no further digit.
IsFixedFormatDate(t) ==
    /\ Len(t) >= 10
    /\ \A k \in {1, 2, 3, 4, 6, 7, 9, 10} : SubSeq(t, k, k) \in Digits
    /\ SubSeq(t, 5, 5) = "-" /\ SubSeq(t, 8, 8) = "-"
    /\ Len(t) = 10 \/ SubSeq(t, 11, 11) \notin Digits

(***************************************************************************)
(* C13: a date segment of a toolchain is accepted only in the fixed format *)
(* four-digit year, '-', two-digit month, '-', two-digit day: whenever     *)
(* Toolchain::from_str returns a value with a date, the text after the     *)
(* channel is written in that format.                                      *)
(***************************************************************************)
C13_FixedDateFormat ==
    (pc = "Toolchain::from_str" /\ result.ok /\ result.val.date.some)
        => IsFixedFormatDate(AfterChannel(input))


\* The three digit groups of a date-shaped text t: g1-g2-g3.
DateYear(t) == LeadingDigits(t)

DateMonth(t) == LeadingDigits(skip(t, Len(DateYear(t)) + 1))

DateDay(t) == LeadingDigits(skip(t, Len(DateYear(t)) + Len(DateMonth(t)) + 2))

IsDateShaped(t) ==
    /\ DateYear(t) # "" /\ DateMonth(t) # "" /\ DateDay(t) # ""
    /\ SubSeq(t, Len(DateYear(t)) + 1, Len(DateYear(t)) + 1) = "-"
    /\ SubSeq(t, Len(DateYear(t)) + Len(DateMonth(t)) + 2,
              Len(DateYear(t)) + Len(DateMonth(t)) + 2) = "-"

\* Days of month m of year y in the Gregorian calendar; 0 when m is no month.
CalendarDays(y, m) ==
    IF m \in {4, 6, 9, 11} THEN 30
    ELSE IF m \in {1, 3, 5, 7, 8, 10, 12} THEN 31
    ELSE IF m # 2 THEN 0
    ELSE IF y % 400 = 0 \/ (y % 4 = 0 /\ y % 100 # 0) THEN 29 ELSE 28

\* t is date-shaped and its month and day are no day of the calendar.
IsNoCalendarDate(t) ==
    /\ IsDateShaped(t)
    /\ DecimalValue(DateDay(t)) < 1
         \/ DecimalValue(DateDay(t)) >
              CalendarDays(DecimalValue(DateYear(t)), DecimalValue(DateMonth(t)))

(***************************************************************************)
(* C14: a toolchain whose date segment is digit-shaped but no calendar     *)
(* date makes Toolchain::from_str return an error; it is never accepted    *)
(* with the date taken as absent.                                          *)
(***************************************************************************)
C14_InvalidDateRejected ==
    (pc = "Toolchain::from_str" /\ IsNoCalendarDate(AfterChannel(input)))
        => ~result.ok /\ result.error = "Nom"

\* The rule recovered from day 31 of April by taking the date as absent, and
\* Toolchain::from_str rejected the text.
C14_Witness ==
    /\ pc = "Toolchain::from_str"
    /\ input = "nightly-2023-04-31"
    /\ IsNoCalendarDate(AfterChannel(input))
    /\ Toolchain_nom_parse(input) =
         Ok("-2023-04-31", [channel |-> Nightly, date |-> None, host |-> None])
    /\ ~result.ok


\* The error trace of r has an entry for the context ctx.
NamesContext(r, ctx) ==
    \E k \in 1..Len(r.errors) : r.errors[k].kind = ContextKind(ctx)

\* Triples with the token foo where the vendor goes, and triples that start
\* with the token arm where the architecture goes.
UnrecognizedVendorTexts ==
    {a \o "-foo-" \o GrammarSystem(v.system) :
        a \in {"i686", "x86_64"}, v \in HostValues}

UnrecognizedArchitectureTexts ==
    {"arm" \o GrammarVendor(v.vendor) \o "-" \o GrammarSystem(v.system) :
        v \in HostValues}

(***************************************************************************)
(* C15: when Host::from_str is given a triple whose vendor position holds  *)
(* an unrecognized token, the error it returns names the segment vendor;   *)
(* an unrecognized architecture token yields an error that names           *)
(* architecture.                                                           *)
(***************************************************************************)
C15_ErrorNamesSegment ==
    pc = "Host::from_str" =>
        /\ input \in UnrecognizedVendorTexts =>
             ~result.ok /\ NamesContext(result, "vendor")
        /\ input \in UnrecognizedArchitectureTexts =>
             ~result.ok /\ NamesContext(result, "architecture")


\* The trace of a failed top-level rule top on the text s: it starts with a
\* failure of a primitive, every entry is located at a suffix of s no shorter
\* than the entry before it, and the last entry is the context top at s.
IsOrderedTrace(errors, top, s) ==
    /\ Len(errors) >= 2
    /\ errors[1].kind[1] = "Nom"
    /\ \A k \in 1..Len(errors) : ends_with(s, errors[k].input)
    /\ \A k \in 1..(Len(errors) - 1) :
          Len(errors[k].input) <= Len(errors[k + 1].input)
    /\ errors[Len(errors)] = [input |-> s, kind |-> ContextKind(top)]

\* The trace of a trailing-input failure: end of input expected at rest.
TrailingInputTrace(top, s, rest) ==
    <<[input |-> rest, kind |-> NomKind("Eof")],
      [input |-> s, kind |-> ContextKind(top)]>>

(***************************************************************************)
(* C16: whenever a from_str entry point fails, its error trace has the     *)
(* innermost failure first and the outermost rule last: the final entry is *)
(* the context of the top-level rule, located at the start of the whole    *)
(* input.  For a trailing-input failure the trace is the end-of-input      *)
(* failure at the unconsumed remainder followed by that context, with no   *)
(* entry for the sub-rules that succeeded.                                 *)
(***************************************************************************)
C16_ErrorTraceOrder ==
    /\ (pc = "Profile::from_str" /\ ~result.ok) =>
         /\ IsOrderedTrace(result.errors, "profile", input)
         /\ MatchesProperPrefix(Profile_nom_parse(input)) =>
              result.errors =
                TrailingInputTrace("profile", input, Profile_nom_parse(input).rest)
    /\ (pc = "Channel::from_str" /\ ~result.ok) =>
         /\ IsOrderedTrace(result.errors, "channel", input)
         /\ MatchesProperPrefix(Channel_nom_parse(input)) =>
              result.errors =
                TrailingInputTrace("channel", input, Channel_nom_parse(input).rest)
    /\ (pc = "Host::from_str" /\ ~result.ok) =>
         /\ IsOrderedTrace(result.errors, "host", input)
         /\ MatchesProperPrefix(Host_nom_parse(input)) =>
              result.errors =
                TrailingInputTrace("host", input, Host_nom_parse(input).rest)
    /\ (pc = "Toolchain::from_str" /\ ~result.ok) =>
         /\ IsOrderedTrace(result.errors, "toolchain", input)
         /\ MatchesProperPrefix(Toolchain_nom_parse(input)) =>
              result.errors =
                TrailingInputTrace("toolchain", input,
                                   Toolchain_nom_parse(input).rest)

\* Toolchain::from_str failed on a channel, a host and then a date: the rule
\* stopped after the host.
C16_Witness ==
    /\ pc = "Toolchain::from_str"
    /\ input = "stable-i686-apple-darwin-2023-01-15"
    /\ ~result.ok
    /\ result.errors =
         <<[input |-> "-2023-01-15", kind |-> NomKind("Eof")],
           [input |-> input, kind |-> ContextKind("toolchain")]>>


\* s starts with four dotted components whose first three fit usize.
HasFourComponents(s) ==
    /\ HasThreeComponents(s)
    /\ starts_with(After3(s), ".")
    /\ LeadingDigits(skip(After3(s), 1)) # ""
    /\ FitsUsize(Group1(s)) /\ FitsUsize(Group2(s)) /\ FitsUsize(Group3(s))

\* The three-component value the first three groups of s denote.
FirstThree(s) ==
    MajorMinorPatch(DecimalValue(Group1(s)), DecimalValue(Group2(s)),
                    DecimalValue(Group3(s)))

HasOverflowingComponent(s) ==
    /\ HasTwoComponents(s)
    /\ \/ ~FitsUsize(Group1(s))
       \/ ~FitsUsize(Group2(s))
       \/ HasThreeComponents(s) /\ ~FitsUsize(Group3(s))

(***************************************************************************)
(* C18: a version component whose decimal value exceeds the maximum of     *)
(* usize makes the parse fail with an error value: neither alternative     *)
(* accepts the text, and a component of a returned version is the decimal  *)
(* value of its digits, never wrapped, truncated or saturated.             *)
(***************************************************************************)
C18_OverflowRejected ==
    /\ (pc = "ChannelVersion::nom_parse" /\ HasOverflowingComponent(input)) =>
         /\ ~ChannelVersion_nom_parse_major_minor(input).ok
         /\ ~ChannelVersion_nom_parse_major_minor_patch(input).ok
         /\ ~result.ok
         /\ \/ ChannelVersion_nom_parse_major_minor(input).errors[1].kind
                = NomKind("MapRes")
            \/ ChannelVersion_nom_parse_major_minor_patch(input).errors[1].kind
                = NomKind("MapRes")
    /\ (pc \in {"Channel::from_str", "Toolchain::from_str"}
          /\ HasOverflowingComponent(input)) =>
         ~result.ok /\ result.error = "Nom"
    /\ (pc = "ChannelVersion::nom_parse" /\ result.ok) =>
         /\ result.val.major = DecimalValue(Group1(input))
         /\ result.val.minor = DecimalValue(Group2(input))
         /\ result.val.tag = "MajorMinorPatch" =>
              result.val.patch = DecimalValue(Group3(input))

\* The version rule rejected a patch component that does not fit usize.
C18_Witness ==
    /\ pc = "ChannelVersion::nom_parse"
    /\ input = "1.0.999999"
    /\ HasOverflowingComponent(input)
    /\ ~result.ok


\* What setup prints when PROFILE is p and the channel segment of
\* RUSTUP_TOOLCHAIN is written c, at the time datetime.
SetupOutput(datetime, p, c) ==
    "cargo:rustup-env=CHKSUM_BUILD_INFO_BUILD_DATETIME=" \o datetime \o "\n"
      \o "cargo:rustup-cfg=" \o p \o "\n"
      \o "cargo:rustup-env=CHKSUM_BUILD_INFO_CARGO_PROFILE=" \o p \o "\n"
      \o "cargo:rustup-cfg=" \o c \o "\n"
      \o "cargo:rustup-env=CHKSUM_BUILD_INFO_RUST_CHANNEL=" \o c \o "\n"

(***************************************************************************)
(* C19: BuildScript::setup runs setup_build, setup_cargo, setup_rust in    *)
(* this order and prints the directives only after all three succeeded, in *)
(* that order; when a step fails, setup returns that error, no later step  *)
(* runs, the failing step appends nothing to the buffer, and nothing at    *)
(* all is written to standard output.                                      *)
(***************************************************************************)
C19_SetupAllOrNothing ==
    [][/\ pc \notin {"setup/Ok", "setup/Err"}
       /\ pc' = "setup/setup_build" => pc = "start"
       /\ pc' = "setup/setup_cargo" =>
            pc = "setup/setup_build" /\ var_present
              /\ input \in {"release", "debug"}
       /\ pc' = "setup/setup_rust" =>
            pc = "setup/setup_cargo" /\ rustup_toolchain.some
              /\ Toolchain_from_str(rustup_toolchain.val).ok
       /\ pc' = "setup/Ok" =>
            /\ pc = "setup/setup_rust"
            /\ result' = OkUnit
            /\ \E datetime \in Datetimes :
                  stdout' =
                    SetupOutput(datetime, input,
                        CanonicalChannelText(ChannelSegment(rustup_toolchain.val)))
       /\ stdout' # stdout => pc' = "setup/Ok"
       /\ pc' = "setup/Err" =>
            /\ stdout_buffer' = stdout_buffer
            /\ stdout' = ""
            /\ ~result'.ok
            /\ pc = "setup/setup_build" =>
                 result' = IF var_present THEN Profile_from_str(input)
                           ELSE EnvVarError
            /\ pc = "setup/setup_cargo" =>
                 result' = IF rustup_toolchain.some
                           THEN Toolchain_from_str(rustup_toolchain.val)
                           ELSE EnvVarError
      ]_vars

\* setup failed in setup_rust on a date that is no calendar date: the buffer
\* holds the lines of the first two steps and nothing was printed.
C19_Witness ==
    /\ pc = "setup/Err"
    /\ input = "release"
    /\ rustup_toolchain = Some("nightly-2023-04-31")
    /\ result.error = "Nom"
    /\ ends_with(stdout_buffer,
                 "cargo:rustup-env=CHKSUM_BUILD_INFO_CARGO_PROFILE=release\n")
    /\ stdout = ""


\* The suffixes of s: every position a rule can be applied at.
Suffixes(s) == {skip(s, k) : k \in 0..Len(s)}

\* No token-to-variant match applied to t ends in its unreachable!() arm.
NoUnreachableArm(t) ==
    /\ Profile_nom_parse(t).ok => Profile_nom_parse(t).val \in {"Release", "Debug"}
    /\ Channel_nom_parse_simple(t).ok =>
         Channel_nom_parse_simple(t).val \in {Stable, Beta, Nightly}
    /\ Architecture_nom_parse(t).ok =>
         Architecture_nom_parse(t).val \in {"i686", "x86_64"}
    /\ Vendor_nom_parse(t).ok =>
         Vendor_nom_parse(t).val \in {"Apple", "PC", "Unknown"}
    /\ LinuxAbi_nom_parse(t).ok =>
         LinuxAbi_nom_parse(t).val \in {"GNU", "GNUX32", "MUSL"}
    /\ WindowsAbi_nom_parse(t).ok =>
         WindowsAbi_nom_parse(t).val \in {"GNU", "GNULLVM", "MSVC"}
    /\ System_nom_parse(t).ok =>
         System_nom_parse(t).val.tag \in {"Darwin", "Linux", "Windows"}

ParserCalls ==
    {"Profile::from_str", "Channel::from_str", "Host::from_str",
     "Toolchain::from_str", "ChannelVersion::nom_parse", "LinuxAbi::nom_parse",
     "WindowsAbi::nom_parse"}

(***************************************************************************)
(* C20: for every input each parser completes with a value or an error     *)
(* value and never panics: at whatever position of the input a             *)
(* token-to-variant match is applied (architecture, channel keyword,       *)
(* vendor, system, Linux ABI, Windows ABI, profile), the text handed to it *)
(* is one of its literals, so no unreachable!() arm is reached.            *)
(***************************************************************************)
C20_NoUnreachableArm ==
    pc \in ParserCalls =>
        /\ result.ok \in BOOLEAN
        /\ ~result.ok => Len(result.errors) >= 1
        /\ \A t \in Suffixes(input) : NoUnreachableArm(t)
        /\ (pc = "Host::from_str" /\ result.ok) => result.val \in HostValues
        /\ (pc = "Toolchain::from_str" /\ result.ok /\ result.val.host.some) =>
             result.val.host.val \in HostValues

\* Host::from_str went through the architecture, vendor, system and ABI
\* matches, the last one on the gnu alternative.
C20_Witness ==
    /\ pc = "Host::from_str"
    /\ input = "x86_64-pc-windows-gnu"
    /\ result.ok
    /\ result.val =
         [architecture |-> "x86_64", vendor |-> Some("PC"),
          system |-> Windows("GNU")]

====
